---------------------------- MODULE Spec2Model ----------------------------
(***************************************************************************)
(* A model of the health-record PWA (src/app.js): the IndexedDB record     *)
(* store (initDB, saveGlucose, savePressure), the query operations         *)
(* (getRecent, getFilteredRecords, getStats), the text extractor            *)
(* (parseHealthText) and the voice-input handler (processVoiceInput).      *)
(*                                                                         *)
(* Conventions                                                             *)
(*  - A text is a sequence of characters; a character is a string.  The    *)
(*    CJK characters are written by their pinyin: "xue" (血), "tang" (糖),  *)
(*    "ya" (压); "fcolon" is the full-width colon (：), "fcomma" the         *)
(*    full-width comma (，), "ni" and "hao" are other non-digit characters.  *)
(*  - A glucose value is held in tenths of mmol/L (6.4 is 64): the texts   *)
(*    of the model carry at most one fractional digit.                     *)
(*  - Time is counted in days; an ISO-8601 timestamp is the fixed-width    *)
(*    digit sequence of the time, compared as IndexedDB compares string    *)
(*    keys (lexicographically).                                            *)
(***************************************************************************)
EXTENDS Integers, Sequences, FiniteSets, TLC

VARIABLES
    db,          \* the module-level database handle: "null" or "open"
    initpc,      \* init(): "pending" while it awaits initDB(), then "settled"
    dbVersion,   \* persisted: version of HealthRecordsDB (0: not created)
    storeNames,  \* persisted: database.objectStoreNames
    store,       \* persisted: collection -> its records, in primary-key order
    keyGen,      \* persisted: collection -> current number of its key generator
    now,         \* the wall clock, in days
    hpc,         \* voice-input handler: position
    text,        \* voice-input handler: the transcript
    parsed,      \* voice-input handler: result of parseHealthText(text)
    hrec,        \* voice-input handler: the record of the save being awaited
    savedParts,  \* voice-input handler: savedParts
    statusBar,   \* text of #statusBar
    resp,        \* the call or the settled promise of the last step, if any
    lastId,      \* collection -> the id its last resolved save returned
    content,     \* the auto-record overlay: what .auto-record-content shows
    persisted,   \* history: collection -> records the running handler stored
    recognition, \* the module-level recognizer: "null" or its handler set
    session,     \* the recognizer's session: "none", "starting", "running", "ending"
    isListening, \* the module-level flag isListening
    currentTab,  \* the module-level currentTab
    historyList, \* #historyList: the collection and records it shows
    loads,       \* the loadHistory calls awaiting their getRecent
    reads        \* the read transactions in progress

\* The state of the store, the clock and the voice-input handler.
coreVars == <<db, initpc, dbVersion, storeNames, store, keyGen, now, hpc, text,
              parsed, hrec, savedParts, statusBar, resp, lastId>>

\* The state of the overlay, the recognizer, the history list and the reads.
handlerVars == <<content, persisted>>
listenVars == <<recognition, session, isListening>>
historyVars == <<currentTab, historyList, loads>>
pageVars == <<handlerVars, listenVars, historyVars, reads>>

vars == <<coreVars, pageVars>>

\* ------------------------------------------------------------------ bounds

\* Records the two collections hold together.
MaxRecords == 2
\* Largest limit passed to getRecent.
MaxLimit == 2
\* The clock runs from StartClock to MaxClock.
StartClock == 8
MaxClock == 10

\* ------------------------------------------------------------- characters

Digits == {"0", "1", "2", "3", "4", "5", "6", "7", "8", "9"}

DigitVal(ch) ==
    CASE ch = "0" -> 0 [] ch = "1" -> 1 [] ch = "2" -> 2 [] ch = "3" -> 3
      [] ch = "4" -> 4 [] ch = "5" -> 5 [] ch = "6" -> 6 [] ch = "7" -> 7
      [] ch = "8" -> 8 [] ch = "9" -> 9

\* The class [：:\s] of both patterns.
Separators == {"fcolon", ":", " "}

Min(a, b) == IF a <= b THEN a ELSE b

\* The empty object {} (and the empty list of optional fields).
Empty == [k \in {} |-> 0]

\* Number of consecutive characters of s from position p on that are in cls.
RECURSIVE RunLen(_, _, _)
RunLen(s, p, cls) ==
    IF p > Len(s) \/ s[p] \notin cls THEN 0 ELSE 1 + RunLen(s, p + 1, cls)

\* Number of consecutive non-digit characters of s from position p on.
RECURSIVE NonDigitRun(_, _)
NonDigitRun(s, p) ==
    IF p > Len(s) \/ s[p] \in Digits THEN 0 ELSE 1 + NonDigitRun(s, p + 1)

\* parseInt of a digit string.
RECURSIVE parseInt(_)
parseInt(ds) ==
    IF ds = <<>> THEN 0
    ELSE 10 * parseInt(SubSeq(ds, 1, Len(ds) - 1)) + DigitVal(ds[Len(ds)])

\* parseFloat of "int" or "int.frac", in tenths.
parseFloat(int, frac) ==
    10 * parseInt(int) + (IF frac = <<>> THEN 0 ELSE DigitVal(frac[1]))

\* The positions of s where the two characters a, b stand.
KeywordAt(s, a, b) ==
    {i \in 1..(Len(s) - 1) : s[i] = a /\ s[i + 1] = b}

NoMatch == [found |-> FALSE]

\* /血糖[：:\s]*([0-9]+(?:\.[0-9]+)?)/ tried at position i.  The quantifiers
\* are greedy and what follows each run cannot be in the run's class, so the
\* match takes each run whole; the fraction is taken when "." and a digit
\* follow.
SugarMatchAt(s, i) ==
    LET p == i + 2 + RunLen(s, i + 2, Separators)
        n == RunLen(s, p, Digits)
        q == p + n
        m == IF q <= Len(s) /\ s[q] = "." THEN RunLen(s, q + 1, Digits) ELSE 0
    IN  IF n = 0 THEN NoMatch
        ELSE [found |-> TRUE, at |-> i,
              int |-> SubSeq(s, p, q - 1),
              frac |-> SubSeq(s, q + 1, q + m)]

\* text.match(...) without the g flag: the match at the leftmost position.
SugarMatch(s) ==
    LET at == {i \in KeywordAt(s, "xue", "tang") : SugarMatchAt(s, i).found}
    IN  IF at = {} THEN NoMatch
        ELSE SugarMatchAt(s, CHOOSE i \in at : \A j \in at : i <= j)

\* /血压[：:\s]*([0-9]{2,3})[^\d]{1,3}([0-9]{2,3})/ tried at position i.
\* Group 1 must be followed by a non-digit, so it is the whole digit run,
\* of 2 or 3 digits; the non-digit run must be followed by a digit, so it is
\* the whole run, of 1 to 3 characters; group 2 is greedy: the first 3 digits
\* of the second run, or its 2.
BpMatchAt(s, i) ==
    LET p  == i + 2 + RunLen(s, i + 2, Separators)
        n1 == RunLen(s, p, Digits)
        g  == NonDigitRun(s, p + n1)
        q  == p + n1 + g
        n2 == Min(3, RunLen(s, q, Digits))
    IN  IF n1 \in {2, 3} /\ g \in 1..3 /\ n2 >= 2
        THEN [found |-> TRUE, at |-> i,
              g1 |-> SubSeq(s, p, p + n1 - 1),
              g2 |-> SubSeq(s, q, q + n2 - 1)]
        ELSE NoMatch

BpMatch(s) ==
    LET at == {i \in KeywordAt(s, "xue", "ya") : BpMatchAt(s, i).found}
    IN  IF at = {} THEN NoMatch
        ELSE BpMatchAt(s, CHOOSE i \in at : \A j \in at : i <= j)

\* The physiological bounds of the pressure pair.
InBounds(sys, dia) == sys >= 60 /\ sys <= 250 /\ dia >= 40 /\ dia <= 150

\* A plausible slip: each number is checked, and kept, on its own.
parseHealthTextPartial(s) ==
    LET sm == SugarMatch(s)
        bm == BpMatch(s)
        r1 == IF sm.found THEN "bloodSugar" :> parseFloat(sm.int, sm.frac)
              ELSE Empty
        sy == IF bm.found /\ parseInt(bm.g1) >= 60 /\ parseInt(bm.g1) <= 250
              THEN "systolic" :> parseInt(bm.g1) ELSE Empty
        di == IF bm.found /\ parseInt(bm.g2) >= 40 /\ parseInt(bm.g2) <= 150
              THEN "diastolic" :> parseInt(bm.g2) ELSE Empty
    IN  r1 @@ sy @@ di

parseHealthText(s) ==
    LET sm == SugarMatch(s)
        bm == BpMatch(s)
        r1 == IF sm.found THEN "bloodSugar" :> parseFloat(sm.int, sm.frac)
              ELSE Empty
        r2 == IF bm.found /\ InBounds(parseInt(bm.g1), parseInt(bm.g2))
              THEN ("systolic" :> parseInt(bm.g1))
                   @@ ("diastolic" :> parseInt(bm.g2))
              ELSE Empty
    IN  r1 @@ r2

\* ------------------------------------------------------------ transcripts

XueTang == <<"xue", "tang">>
XueYa == <<"xue", "ya">>

\* Glucose mentions: none, 血糖6.4, 血糖 7, 血糖：12, 血糖0, 血糖85, 血糖.
GlucoseMentions ==
    { <<>>,
      XueTang \o <<"6", ".", "4">>,
      XueTang \o <<" ", "7">>,
      XueTang \o <<"fcolon", "1", "2">>,
      XueTang \o <<"0">>,
      XueTang \o <<"8", "5">>,
      XueTang }

\* Pressure mentions with both numbers: 血压130 85, 血压 130/85, 血压：120，80,
\* 血压60 40 and 血压250/150 (the bounds), and the pairs out of bounds
\* 血压300 90, 血压130 30, 血压59 85, 血压130 151.
PressurePairs ==
    { XueYa \o <<"1", "3", "0", " ", "8", "5">>,
      XueYa \o <<" ", "1", "3", "0", "/", "8", "5">>,
      XueYa \o <<"fcolon", "1", "2", "0", "fcomma", "8", "0">>,
      XueYa \o <<"6", "0", " ", "4", "0">>,
      XueYa \o <<"2", "5", "0", "/", "1", "5", "0">>,
      XueYa \o <<"3", "0", "0", " ", "9", "0">>,
      XueYa \o <<"1", "3", "0", " ", "3", "0">>,
      XueYa \o <<"5", "9", " ", "8", "5">>,
      XueYa \o <<"1", "3", "0", " ", "1", "5", "1">> }

\* Pressure mentions without a pair: none, 血压130 (one number), 血压.
PressureStubs ==
    { <<>>, XueYa \o <<"1", "3", "0">>, XueYa }

PressureMentions == PressurePairs \cup PressureStubs

Joiners == { <<>>, <<"fcomma">>, <<" ">> }

\* What the speech recognizer may deliver: a glucose mention and a pressure
\* mention in either order, and a text with neither keyword (你好).
AllTranscripts ==
    { g \o j \o p : g \in GlucoseMentions, j \in Joiners, p \in PressureMentions }
    \cup
    { p \o j \o g : g \in GlucoseMentions, j \in Joiners, p \in PressureMentions }
    \cup { <<"ni", "hao">> }

\* The transcripts of the application runs: 血糖6.4，血压130 85; 血糖 7;
\* 血压：120，80; 血压300 90; 血糖0; 你好.
Transcripts ==
    { XueTang \o <<"6", ".", "4", "fcomma">> \o XueYa
          \o <<"1", "3", "0", " ", "8", "5">>,
      XueTang \o <<" ", "7">>,
      XueYa \o <<"fcolon", "1", "2", "0", "fcomma", "8", "0">>,
      XueYa \o <<"3", "0", "0", " ", "9", "0">>,
      XueTang \o <<"0">>,
      <<"ni", "hao">> }

\* ------------------------------------------------------------ record store

DB_VERSION == 1

Collections == {"glucose", "pressure"}

DigitChar(n) == CHOOSE ch \in Digits : DigitVal(ch) = n

\* Date.prototype.toISOString: fixed-width, zero-padded.
toISOString(t) == <<DigitChar(t \div 10), DigitChar(t % 10)>>

\* The order of IndexedDB string keys: by code unit, a proper prefix first.
RECURSIVE KeyLess(_, _)
KeyLess(a, b) ==
    IF b = <<>> THEN FALSE
    ELSE IF a = <<>> THEN TRUE
    ELSE IF a[1] # b[1] THEN DigitVal(a[1]) < DigitVal(b[1])
    ELSE KeyLess(Tail(a), Tail(b))

\* A plausible slip: entries of equal key held latest insert first.
IndexLessLatestFirst(r1, r2) ==
    \/ KeyLess(r1.recordedAt, r2.recordedAt)
    \/ r1.recordedAt = r2.recordedAt /\ r1.id > r2.id

\* The order of the entries of the recordedAt index: by key, then by
\* primary key.
IndexLess(r1, r2) ==
    \/ KeyLess(r1.recordedAt, r2.recordedAt)
    \/ r1.recordedAt = r2.recordedAt /\ r1.id < r2.id

\* store.index('recordedAt'): the records in index order.
Index(recs) == SortSeq(recs, IndexLess)

\* The loop of request.onsuccess in getRecent: the cursor stands at entry pos
\* and moves towards the start of the index.
RECURSIVE CursorPrev(_, _, _, _)
CursorPrev(idx, pos, results, limit) ==
    IF pos >= 1 /\ Len(results) < limit
    THEN CursorPrev(idx, pos - 1, Append(results, idx[pos]), limit)
    ELSE results

\* The loop of request.onsuccess in getFilteredRecords: the cursor moves
\* towards the end of the index.
RECURSIVE CursorNext(_, _, _)
CursorNext(idx, pos, results) ==
    IF pos <= Len(idx)
    THEN CursorNext(idx, pos + 1, Append(results, idx[pos]))
    ELSE results

\* A plausible slip: the cursor opened in the default direction.
getRecentNext(recs, limit) ==
    SubSeq(Index(recs), 1, Min(limit, Len(recs)))

\* index.openCursor(null, 'prev').
getRecent(recs, limit) ==
    CursorPrev(Index(recs), Len(recs), <<>>, limit)

\* A plausible slip: IDBKeyRange.lowerBound(cutoffISO, true), an open bound.
getFilteredRecordsOpen(recs, cutoffISO) ==
    SelectSeq(Index(recs), LAMBDA r : KeyLess(cutoffISO, r.recordedAt))

\* index.openCursor(IDBKeyRange.lowerBound(cutoffISO)): the cursor starts at
\* the first entry whose key is not below the bound.
getFilteredRecords(recs, cutoffISO) ==
    LET idx == Index(recs)
        below == {i \in 1..Len(idx) : KeyLess(idx[i].recordedAt, cutoffISO)}
    IN  CursorNext(idx, Cardinality(below) + 1, <<>>)

\* ------------------------------------------------------------- statistics

Null == "null"

RECURSIVE Sum(_)
Sum(vs) == IF vs = <<>> THEN 0 ELSE vs[1] + Sum(Tail(vs))

\* Math.min(...vs) and Math.max(...vs).
MathMin(vs) ==
    IF vs = <<>> THEN "Infinity"
    ELSE CHOOSE v \in {vs[i] : i \in 1..Len(vs)} :
             \A i \in 1..Len(vs) : v <= vs[i]

MathMax(vs) ==
    IF vs = <<>> THEN "-Infinity"
    ELSE CHOOSE v \in {vs[i] : i \in 1..Len(vs)} :
             \A i \in 1..Len(vs) : v >= vs[i]

\* Math.round(sum / length): the sum of vs (non-negative integers) over
\* its length, rounded half up to an integer.
RoundedMean(vs) ==
    IF vs = <<>> THEN "NaN"
    ELSE (2 * Sum(vs) + Len(vs)) \div (2 * Len(vs))

\* The sides on which a binary floating-point value can lie of the decimal
\* value it stands for.
FloatSides == {"down", "up"}

\* (sum / length).toFixed(1): a string.  The values are tenths held as
\* binary floating-point numbers, and so is their mean: toFixed rounds the
\* binary value, so a mean that lies midway between two tenths comes out
\* on the side its binary value lies on ((8.1 + 8.2) / 2 is
\* 8.149999999999999 and gives "8.1", (6.4 + 6.5) / 2 is 6.45 and gives
\* "6.5"); every other mean goes to the nearest tenth.
MeanToFixed(vs, side) ==
    LET n == Len(vs)
        floor == Sum(vs) \div n
        rest == Sum(vs) % n
    IN  IF vs = <<>> THEN "NaN"
        ELSE IF 2 * rest = n
        THEN [toFixed |-> IF side = "down" THEN floor ELSE floor + 1]
        ELSE [toFixed |-> IF 2 * rest > n THEN floor + 1 ELSE floor]

Field(recs, f) == [i \in 1..Len(recs) |-> recs[i][f]]

\* A plausible slip: the statistics computed without the length guard.
glucoseStatsUnguarded(glucoseRecords, side) ==
    LET values == Field(glucoseRecords, "value")
    IN  [count |-> Len(glucoseRecords),
         average |-> MeanToFixed(values, side),
         min |-> MathMin(values),
         max |-> MathMax(values)]

glucoseStats(glucoseRecords, side) ==
    LET values == Field(glucoseRecords, "value")
    IN  IF Len(glucoseRecords) > 0
        THEN [count |-> Len(glucoseRecords),
              average |-> MeanToFixed(values, side),
              min |-> MathMin(values),
              max |-> MathMax(values)]
        ELSE [count |-> 0, average |-> Null, min |-> Null, max |-> Null]

pressureStats(pressureRecords) ==
    LET systolics == Field(pressureRecords, "systolic")
        diastolics == Field(pressureRecords, "diastolic")
    IN  IF Len(pressureRecords) > 0
        THEN [count |-> Len(pressureRecords),
              avgSystolic |-> RoundedMean(systolics),
              avgDiastolic |-> RoundedMean(diastolics),
              minSystolic |-> MathMin(systolics),
              maxSystolic |-> MathMax(systolics),
              minDiastolic |-> MathMin(diastolics),
              maxDiastolic |-> MathMax(diastolics)]
        ELSE [count |-> 0, avgSystolic |-> Null, avgDiastolic |-> Null,
              minSystolic |-> Null, maxSystolic |-> Null,
              minDiastolic |-> Null, maxDiastolic |-> Null]

\* cutoff.setDate(cutoff.getDate() - days); cutoff.toISOString().
cutoffISO(days) == toISOString(now - days)

\* The days showSummary passes: today, 3day, weekly.
SummaryDays == {1, 3, 7}

\* getStats(days): both collections filtered, each summarised on its own.
\* The two filtered sequences, which the code drops after summarising
\* them, are kept beside the statistics.
getStats(days, side) ==
    LET glucoseRecords == getFilteredRecords(store["glucose"], cutoffISO(days))
        pressureRecords == getFilteredRecords(store["pressure"], cutoffISO(days))
    IN  [glucoseRecords |-> glucoseRecords,
         pressureRecords |-> pressureRecords,
         glucose |-> glucoseStats(glucoseRecords, side),
         pressure |-> pressureStats(pressureRecords)]

\* ------------------------------------------------------------------ initDB

\* database.createObjectStore(name, ...): a ConstraintError when the store
\* exists.
createObjectStore(names, name) ==
    IF name \in names THEN [ok |-> FALSE, names |-> names]
    ELSE [ok |-> TRUE, names |-> names \cup {name}]

\* request.onupgradeneeded: each store (with its recordedAt index) is created
\* unless the database contains it.
onupgradeneeded(names) ==
    LET a == IF "glucose" \notin names
             THEN createObjectStore(names, "glucose")
             ELSE [ok |-> TRUE, names |-> names]
    IN  IF ~a.ok THEN a
        ELSE IF "pressure" \notin a.names
        THEN createObjectStore(a.names, "pressure")
        ELSE a

\* A plausible slip: the database deleted and built anew on every open.
initDBReset(available) ==
    IF ~available
    THEN [settled |-> "rejected", db |-> db, dbVersion |-> dbVersion,
          storeNames |-> storeNames, store |-> store, keyGen |-> keyGen]
    ELSE [settled |-> "resolved", db |-> "open", dbVersion |-> DB_VERSION,
          storeNames |-> Collections,
          store |-> [c \in Collections |-> <<>>],
          keyGen |-> [c \in Collections |-> 0]]

\* A plausible slip: the handle assigned from the request whether or not
\* the open succeeded.
initDBSetsHandle(available) ==
    LET up == onupgradeneeded(storeNames)
        failed == [settled |-> "rejected", db |-> "open",
                   dbVersion |-> dbVersion, storeNames |-> storeNames,
                   store |-> store, keyGen |-> keyGen]
    IN  IF ~available THEN failed
        ELSE IF dbVersion >= DB_VERSION
        THEN [failed EXCEPT !.settled = "resolved"]
        ELSE IF ~up.ok THEN failed
        ELSE [settled |-> "resolved", db |-> "open", dbVersion |-> DB_VERSION,
              storeNames |-> up.names,
              store |-> [c \in Collections |->
                            IF c \in storeNames THEN store[c] ELSE <<>>],
              keyGen |-> [c \in Collections |->
                            IF c \in storeNames THEN keyGen[c] ELSE 0]]

\* initDB(): indexedDB.open(DB_NAME, DB_VERSION).  The engine may be
\* unavailable (request.onerror); it runs onupgradeneeded when the stored
\* version is below DB_VERSION, and an error in it aborts the upgrade and
\* fails the open; request.onsuccess sets db.
initDB(available) ==
    LET failed == [settled |-> "rejected", db |-> db, dbVersion |-> dbVersion,
                   storeNames |-> storeNames, store |-> store,
                   keyGen |-> keyGen]
        up == onupgradeneeded(storeNames)
    IN  IF ~available THEN failed
        ELSE IF dbVersion >= DB_VERSION
        THEN [failed EXCEPT !.settled = "resolved", !.db = "open"]
        ELSE IF ~up.ok THEN failed
        ELSE [settled |-> "resolved", db |-> "open", dbVersion |-> DB_VERSION,
              storeNames |-> up.names,
              store |-> [c \in Collections |->
                            IF c \in storeNames THEN store[c] ELSE <<>>],
              keyGen |-> [c \in Collections |->
                            IF c \in storeNames THEN keyGen[c] ELSE 0]]

\* ------------------------------------------------------------------- saves

NoRecord == [none |-> TRUE]

\* The record saveGlucose builds when it is called.
glucoseRecord(value, notes) ==
    [value |-> value, unit |-> "mmol/L",
     recordedAt |-> toISOString(now), notes |-> notes]

\* The record savePressure builds when it is called.
pressureRecord(systolic, diastolic, notes) ==
    [systolic |-> systolic, diastolic |-> diastolic,
     recordedAt |-> toISOString(now), notes |-> notes]

\* The stored record: keyPath 'id', autoIncrement.
WithId(c, record, key) ==
    IF c = "glucose"
    THEN [id |-> key, value |-> record.value, unit |-> record.unit,
          recordedAt |-> record.recordedAt, notes |-> record.notes]
    ELSE [id |-> key, systolic |-> record.systolic,
          diastolic |-> record.diastolic,
          recordedAt |-> record.recordedAt, notes |-> record.notes]

\* What the engine may do with the insert transaction of a save:
\*   "commit"        the request succeeds and the transaction commits;
\*   "requestError"  the request fails (request.onerror) and the transaction
\*                   aborts;
\*   "commitAbort"   the request succeeds (request.onsuccess) and the
\*                   transaction then fails to commit (I/O or quota error met
\*                   when the changes are written) and aborts.
\* An aborted transaction leaves no record and reverts the key generator.
EngineOutcomes == {"commit", "requestError", "commitAbort"}

\* store.add(record) in a readwrite transaction on collection c, and the
\* promise of the save: resolved by request.onsuccess with the key, rejected
\* by request.onerror.  Nothing listens to the transaction's own events.
add(c, record, engine) ==
    LET key == keyGen[c] + 1
    IN  CASE engine = "commit" ->
                [store |-> [store EXCEPT ![c] = Append(@, WithId(c, record, key))],
                 keyGen |-> [keyGen EXCEPT ![c] = key],
                 txn |-> "committed", settled |-> "resolved", id |-> key]
          [] engine = "requestError" ->
                [store |-> store, keyGen |-> keyGen,
                 txn |-> "aborted", settled |-> "rejected", id |-> 0]
          [] engine = "commitAbort" ->
                [store |-> store, keyGen |-> keyGen,
                 txn |-> "aborted", settled |-> "resolved", id |-> key]

\* ------------------------------------------------------ voice-input handler

NoResp == [op |-> "none"]

\* A plausible slip: a reading taken whenever the parse result has it.
Present(p, k) == k \in DOMAIN p

\* A JavaScript number in a condition.
Truthy(p, k) == k \in DOMAIN p /\ p[k] # 0

WantsGlucose(p) == Truthy(p, "bloodSugar")
WantsPressure(p) == Truthy(p, "systolic") /\ Truthy(p, "diastolic")

\* The catch block of processVoiceInput.
SaveFailed(parts) ==
    [hpc |-> "idle", hrec |-> NoRecord, savedParts |-> parts,
     statusBar |-> "saveFailed"]

\* processVoiceInput from "if (parsed.systolic && parsed.diastolic)" on:
\* savePressure is called and awaited (with no database handle the call
\* throws and the promise is rejected at once), or the success is reported.
PressurePhase(p, t, parts) ==
    IF WantsPressure(p)
    THEN IF db = "null" THEN SaveFailed(parts)
         ELSE [hpc |-> "awaitPressure",
               hrec |-> pressureRecord(p["systolic"], p["diastolic"], t),
               savedParts |-> parts, statusBar |-> statusBar]
    ELSE [hpc |-> "idle", hrec |-> NoRecord, savedParts |-> parts,
          statusBar |-> "recorded"]

\* processVoiceInput from "if (parsed.bloodSugar)" on.
GlucosePhase(p, t) ==
    IF WantsGlucose(p)
    THEN IF db = "null" THEN SaveFailed(<<>>)
         ELSE [hpc |-> "awaitGlucose",
               hrec |-> glucoseRecord(p["bloodSugar"], t),
               savedParts |-> <<>>, statusBar |-> statusBar]
    ELSE PressurePhase(p, t, <<>>)

TotalRecords == Len(store["glucose"]) + Len(store["pressure"])

\* The saves a parse result leads to.
SavesOf(p) ==
    (IF WantsGlucose(p) THEN 1 ELSE 0) + (IF WantsPressure(p) THEN 1 ELSE 0)

\* parseHealthText on the transcripts of the application runs.
TranscriptParse == [t \in Transcripts |-> parseHealthText(t)]

\* A plausible slip: the prompt given whenever there is nothing to save.
NothingToSave(p) == ~WantsGlucose(p) /\ ~WantsPressure(p)

\* Object.keys(parsed).length === 0.
NothingRecognized(p) == DOMAIN p = {}

\* processVoiceInput(t) up to its first await (or its end).
processVoiceInput(t) ==
    /\ hpc = "idle"
    /\ TotalRecords + SavesOf(TranscriptParse[t]) <= MaxRecords
    /\ LET p == TranscriptParse[t]
           h == GlucosePhase(p, t)
       IN  IF NothingRecognized(p)
           THEN /\ statusBar' = "retry"
                /\ UNCHANGED <<hpc, text, parsed, hrec, savedParts>>
           ELSE /\ text' = IF h.hpc = "idle" THEN <<>> ELSE t
                /\ parsed' = IF h.hpc = "idle" THEN Empty ELSE p
                /\ hpc' = h.hpc
                /\ hrec' = h.hrec
                /\ savedParts' = h.savedParts
                /\ statusBar' = h.statusBar
    /\ resp' = [op |-> "processVoiceInput", text |-> t]
    /\ UNCHANGED <<db, initpc, dbVersion, storeNames, store, keyGen, now, lastId>>

\* The promise of saveGlucose settles and processVoiceInput runs on to its
\* next await (or its end).
glucoseSettled ==
    /\ hpc = "awaitGlucose"
    /\ \E engine \in EngineOutcomes :
         LET r == add("glucose", hrec, engine)
             parts == Append(savedParts, <<"glucose", parsed["bloodSugar"]>>)
             h == IF r.settled = "resolved"
                  THEN PressurePhase(parsed, text, parts)
                  ELSE SaveFailed(savedParts)
         IN  /\ store' = r.store
             /\ keyGen' = r.keyGen
             /\ resp' = [op |-> "saveGlucose", txn |-> r.txn,
                         settled |-> r.settled, id |-> r.id, record |-> hrec]
             /\ lastId' = IF r.settled = "resolved"
                          THEN [lastId EXCEPT !["glucose"] = r.id] ELSE lastId
             /\ hpc' = h.hpc
             /\ hrec' = h.hrec
             /\ savedParts' = h.savedParts
             /\ statusBar' = h.statusBar
             /\ text' = IF h.hpc = "idle" THEN <<>> ELSE text
             /\ parsed' = IF h.hpc = "idle" THEN Empty ELSE parsed
    /\ UNCHANGED <<db, initpc, dbVersion, storeNames, now>>

\* The promise of savePressure settles and processVoiceInput ends.
pressureSettled ==
    /\ hpc = "awaitPressure"
    /\ \E engine \in EngineOutcomes :
         LET r == add("pressure", hrec, engine)
             parts == Append(savedParts,
                             <<"pressure", parsed["systolic"], parsed["diastolic"]>>)
         IN  /\ store' = r.store
             /\ keyGen' = r.keyGen
             /\ resp' = [op |-> "savePressure", txn |-> r.txn,
                         settled |-> r.settled, id |-> r.id, record |-> hrec]
             /\ lastId' = IF r.settled = "resolved"
                          THEN [lastId EXCEPT !["pressure"] = r.id] ELSE lastId
             /\ savedParts' = IF r.settled = "resolved" THEN parts ELSE savedParts
             /\ statusBar' = IF r.settled = "resolved" THEN "recorded"
                             ELSE "saveFailed"
    /\ hpc' = "idle"
    /\ hrec' = NoRecord
    /\ text' = <<>>
    /\ parsed' = Empty
    /\ UNCHANGED <<db, initpc, dbVersion, storeNames, now>>

\* ------------------------------------------------- auto-record handler

\* The catch block of processAutoVoiceInput.
AutoSaveFailed(parts) ==
    [hpc |-> "idle", hrec |-> NoRecord, savedParts |-> parts,
     content |-> [content EXCEPT !.shows = "saveFailed"]]

\* processAutoVoiceInput from "if (parsed.systolic && parsed.diastolic)" on;
\* the success report starts the timer that closes the overlay.
AutoPressurePhase(p, t, parts) ==
    IF WantsPressure(p)
    THEN IF db = "null" THEN AutoSaveFailed(parts)
         ELSE [hpc |-> "autoAwaitPressure",
               hrec |-> pressureRecord(p["systolic"], p["diastolic"], t),
               savedParts |-> parts, content |-> content]
    ELSE [hpc |-> "idle", hrec |-> NoRecord, savedParts |-> parts,
          content |-> [shows |-> "recorded", closing |-> TRUE]]

\* processAutoVoiceInput from "if (parsed.bloodSugar)" on.
AutoGlucosePhase(p, t) ==
    IF WantsGlucose(p)
    THEN IF db = "null" THEN AutoSaveFailed(<<>>)
         ELSE [hpc |-> "autoAwaitGlucose",
               hrec |-> glucoseRecord(p["bloodSugar"], t),
               savedParts |-> <<>>, content |-> content]
    ELSE AutoPressurePhase(p, t, <<>>)

\* processAutoVoiceInput(t, overlay) up to its first await (or its end).
processAutoVoiceInput(t) ==
    /\ hpc = "idle"
    /\ TotalRecords + SavesOf(TranscriptParse[t]) <= MaxRecords
    /\ LET p == TranscriptParse[t]
           h == AutoGlucosePhase(p, t)
       IN  IF NothingRecognized(p)
           THEN /\ content' = [content EXCEPT !.shows = "notUnderstood"]
                /\ UNCHANGED <<hpc, text, parsed, hrec, savedParts>>
           ELSE /\ text' = IF h.hpc = "idle" THEN <<>> ELSE t
                /\ parsed' = IF h.hpc = "idle" THEN Empty ELSE p
                /\ hpc' = h.hpc
                /\ hrec' = h.hrec
                /\ savedParts' = h.savedParts
                /\ content' = h.content
    /\ resp' = [op |-> "processAutoVoiceInput", text |-> t]
    /\ UNCHANGED <<db, initpc, dbVersion, storeNames, store, keyGen, now,
                   statusBar, lastId>>

\* The promise of saveGlucose settles and processAutoVoiceInput runs on to
\* its next await (or its end).
autoGlucoseSettled ==
    /\ hpc = "autoAwaitGlucose"
    /\ \E engine \in EngineOutcomes :
         LET r == add("glucose", hrec, engine)
             parts == Append(savedParts, <<"glucose", parsed["bloodSugar"]>>)
             h == IF r.settled = "resolved"
                  THEN AutoPressurePhase(parsed, text, parts)
                  ELSE AutoSaveFailed(savedParts)
         IN  /\ store' = r.store
             /\ keyGen' = r.keyGen
             /\ resp' = [op |-> "saveGlucose", txn |-> r.txn,
                         settled |-> r.settled, id |-> r.id, record |-> hrec]
             /\ lastId' = IF r.settled = "resolved"
                          THEN [lastId EXCEPT !["glucose"] = r.id] ELSE lastId
             /\ hpc' = h.hpc
             /\ hrec' = h.hrec
             /\ savedParts' = h.savedParts
             /\ content' = h.content
             /\ text' = IF h.hpc = "idle" THEN <<>> ELSE text
             /\ parsed' = IF h.hpc = "idle" THEN Empty ELSE parsed
    /\ UNCHANGED <<db, initpc, dbVersion, storeNames, now, statusBar>>

\* The promise of savePressure settles and processAutoVoiceInput ends.
autoPressureSettled ==
    /\ hpc = "autoAwaitPressure"
    /\ \E engine \in EngineOutcomes :
         LET r == add("pressure", hrec, engine)
             parts == Append(savedParts,
                             <<"pressure", parsed["systolic"], parsed["diastolic"]>>)
         IN  /\ store' = r.store
             /\ keyGen' = r.keyGen
             /\ resp' = [op |-> "savePressure", txn |-> r.txn,
                         settled |-> r.settled, id |-> r.id, record |-> hrec]
             /\ lastId' = IF r.settled = "resolved"
                          THEN [lastId EXCEPT !["pressure"] = r.id] ELSE lastId
             /\ savedParts' = IF r.settled = "resolved" THEN parts ELSE savedParts
             /\ content' = IF r.settled = "resolved"
                           THEN [shows |-> "recorded", closing |-> TRUE]
                           ELSE [content EXCEPT !.shows = "saveFailed"]
    /\ hpc' = "idle"
    /\ hrec' = NoRecord
    /\ text' = <<>>
    /\ parsed' = Empty
    /\ UNCHANGED <<db, initpc, dbVersion, storeNames, now, statusBar>>

\* The timer of a success report (setTimeout, 3 s): the overlay is closed and
\* its prompt restored.  Timers of earlier reports may still be pending.
closeOverlay ==
    /\ content.closing
    /\ \E more \in BOOLEAN : content' = [shows |-> "prompt", closing |-> more]
    /\ resp' = NoResp
    /\ UNCHANGED <<db, initpc, dbVersion, storeNames, store, keyGen, now, hpc,
                   text, parsed, hrec, savedParts, statusBar, lastId>>

\* ----------------------------------------------------------------- queries

\* A call of getRecent(c, limit): with no database handle db.transaction
\* throws and the promise is rejected.
GetRecent(c, limit) ==
    /\ resp' = IF db = "null"
               THEN [op |-> "getRecent", c |-> c, limit |-> limit,
                     settled |-> "rejected"]
               ELSE [op |-> "getRecent", c |-> c, limit |-> limit,
                     settled |-> "resolved",
                     result |-> getRecent(store[c], limit)]
    /\ UNCHANGED <<db, initpc, dbVersion, storeNames, store, keyGen, now, hpc,
                   text, parsed, hrec, savedParts, statusBar, lastId>>

\* The sides the mean of the glucose values of the window can come out on.
SidesOf(days) ==
    LET values == Field(getFilteredRecords(store["glucose"], cutoffISO(days)),
                        "value")
    IN  IF values # <<>> /\ 2 * (Sum(values) % Len(values)) = Len(values)
        THEN FloatSides ELSE {"up"}

\* A call of getStats(days).
GetStats(days) ==
    /\ \E side \in SidesOf(days) :
         resp' = IF db = "null"
                 THEN [op |-> "getStats", days |-> days, settled |-> "rejected"]
                 ELSE [op |-> "getStats", days |-> days, settled |-> "resolved",
                       cutoffISO |-> cutoffISO(days),
                       result |-> getStats(days, side)]
    /\ UNCHANGED <<db, initpc, dbVersion, storeNames, store, keyGen, now, hpc,
                   text, parsed, hrec, savedParts, statusBar, lastId>>

\* ------------------------------------------------------------- application

\* The page is loaded (again): the module state is fresh, init() has called
\* initDB() and awaits it.
load ==
    /\ hpc = "idle"
    /\ initpc # "pending"
    /\ initpc' = "pending"
    /\ db' = "null"
    /\ statusBar' = "initial"
    /\ resp' = NoResp
    /\ UNCHANGED <<dbVersion, storeNames, store, keyGen, now, hpc, text,
                   parsed, hrec, savedParts, lastId>>

\* The promise of initDB settles and init() runs on: its catch block reports
\* the failure.
init ==
    /\ initpc = "pending"
    /\ \E available \in BOOLEAN :
         LET r == initDB(available)
         IN  /\ db' = r.db
             /\ dbVersion' = r.dbVersion
             /\ storeNames' = r.storeNames
             /\ store' = r.store
             /\ keyGen' = r.keyGen
             /\ resp' = [op |-> "initDB", available |-> available,
                         settled |-> r.settled]
             /\ statusBar' = IF r.settled = "resolved" THEN statusBar
                             ELSE "initFailed"
    /\ initpc' = "settled"
    /\ UNCHANGED <<now, hpc, text, parsed, hrec, savedParts, lastId>>

\* Time passes.
Tick ==
    /\ now < MaxClock
    /\ now' = now + 1
    /\ resp' = NoResp
    /\ UNCHANGED <<db, dbVersion, storeNames, store, keyGen, hpc, text,
                   parsed, hrec, savedParts, statusBar, lastId, initpc>>

\* The page as it is loaded: the overlay with its prompt, no recognizer,
\* the glucose tab selected, an empty list, nothing pending.
InitPage ==
    /\ content = [shows |-> "prompt", closing |-> FALSE]
    /\ persisted = [c \in Collections |-> 0]
    /\ recognition = "null"
    /\ session = "none"
    /\ isListening = FALSE
    /\ currentTab = "glucose"
    /\ historyList = [type |-> "none", records |-> <<>>]
    /\ loads = <<>>
    /\ reads = <<>>

Init ==
    /\ db = "null"
    /\ initpc = "pending"
    /\ dbVersion = 0
    /\ storeNames = {}
    /\ store = [c \in Collections |-> <<>>]
    /\ keyGen = [c \in Collections |-> 0]
    /\ now = StartClock
    /\ hpc = "idle"
    /\ text = <<>>
    /\ parsed = Empty
    /\ hrec = NoRecord
    /\ savedParts = <<>>
    /\ statusBar = "initial"
    /\ resp = NoResp
    /\ lastId = [c \in Collections |-> 0]
    /\ InitPage

\* The store, the queries and the voice-input handler; the rest of the page
\* stays as it is.
Next ==
    \/ load /\ UNCHANGED pageVars
    \/ init /\ UNCHANGED pageVars
    \/ \E t \in Transcripts : processVoiceInput(t) /\ UNCHANGED pageVars
    \/ glucoseSettled /\ UNCHANGED pageVars
    \/ pressureSettled /\ UNCHANGED pageVars
    \/ \E c \in Collections, limit \in 1..MaxLimit :
           GetRecent(c, limit) /\ UNCHANGED pageVars
    \/ \E days \in SummaryDays : GetStats(days) /\ UNCHANGED pageVars
    \/ Tick /\ UNCHANGED pageVars

Spec == Init /\ [][Next]_vars

\* ---------------------------------------------- the text extractor alone

\* parseHealthText applied to a transcript the recognizer delivered.
parseText ==
    /\ hpc = "idle"
    /\ parsed' = parseHealthText(text)
    /\ hpc' = "parsed"
    /\ UNCHANGED <<db, initpc, dbVersion, storeNames, store, keyGen, now,
                   text, hrec, savedParts, statusBar, resp, lastId>>

InitParse ==
    /\ db = "null"
    /\ initpc = "pending"
    /\ dbVersion = 0
    /\ storeNames = {}
    /\ store = [c \in Collections |-> <<>>]
    /\ keyGen = [c \in Collections |-> 0]
    /\ now = StartClock
    /\ hpc = "idle"
    /\ text \in AllTranscripts
    /\ parsed = Empty
    /\ hrec = NoRecord
    /\ savedParts = <<>>
    /\ statusBar = "initial"
    /\ resp = NoResp
    /\ lastId = [c \in Collections |-> 0]
    /\ InitPage

SpecParse == InitParse /\ [][parseText /\ UNCHANGED pageVars]_vars

\* ------------------------------------------------- the two voice handlers

\* History: the records the running handler has stored so far, none once it
\* has ended.
Tally ==
    persisted' = [c \in Collections |->
                    IF hpc' = "idle" THEN 0
                    ELSE persisted[c] + Len(store'[c]) - Len(store[c])]

\* What a step of a handler leaves as it is.
VoiceFrame == Tally /\ UNCHANGED <<listenVars, historyVars, reads>>

\* The store and both handlers; the page is loaded with its overlay fresh.
NextVoice ==
    \/ /\ load
       /\ content' = [shows |-> "prompt", closing |-> FALSE]
       /\ UNCHANGED <<persisted, listenVars, historyVars, reads>>
    \/ init /\ UNCHANGED pageVars
    \/ \E t \in Transcripts :
           processVoiceInput(t) /\ UNCHANGED content /\ VoiceFrame
    \/ glucoseSettled /\ UNCHANGED content /\ VoiceFrame
    \/ pressureSettled /\ UNCHANGED content /\ VoiceFrame
    \/ \E t \in Transcripts : processAutoVoiceInput(t) /\ VoiceFrame
    \/ autoGlucoseSettled /\ VoiceFrame
    \/ autoPressureSettled /\ VoiceFrame
    \/ closeOverlay /\ UNCHANGED <<persisted, listenVars, historyVars, reads>>

SpecVoice == Init /\ [][NextVoice]_vars

\* --------------------------------------- reads, one cursor step at a time

\* The reads that are in progress together: getStats calls
\* getFilteredRecords twice in one Promise.all, showSummary getRecent.
ConcurrentReads == 2

\* The transcripts spoken while reads are in progress: one reading each.
SpokenMeanwhile ==
    { XueTang \o <<" ", "7">>,
      XueYa \o <<"fcolon", "1", "2", "0", "fcomma", "8", "0">> }

\* A plausible slip: the cursor reading the collection as it is now.
SourceLive(rd) == store[rd.c]

\* db.transaction(storeName, 'readonly'): what the cursor of a read
\* iterates over is the collection as its transaction sees it.
Source(rd) == rd.snap

\* A read as it is called: its transaction is created and waits to be
\* started.  (since: history, the records the collection held at the call.)
NewRead(op, c, arg) ==
    [op |-> op, c |-> c, arg |-> arg, phase |-> "queued", snap |-> <<>>,
     passed |-> 0, results |-> <<>>, since |-> Len(store[c])]

\* Promise.all of the same read on the glucose and on the pressure
\* collection.
callReads(op, arg) ==
    /\ db = "open"
    /\ Len(reads) + 2 <= ConcurrentReads
    /\ reads' = reads \o <<NewRead(op, "glucose", arg),
                           NewRead(op, "pressure", arg)>>
    /\ resp' = NoResp
    /\ UNCHANGED <<db, initpc, dbVersion, storeNames, store, keyGen, now, hpc,
                   text, parsed, hrec, savedParts, statusBar, lastId>>

\* showSummary('latest') and exportData: getRecent on both collections.
callGetRecent(limit) == callReads("getRecent", limit)

\* getStats(days): getFilteredRecords on both collections.
callGetFilteredRecords(days) == callReads("getFilteredRecords", cutoffISO(days))

\* The engine starts the transaction of read i and opens its cursor.
txStart(i) ==
    /\ reads[i].phase = "queued"
    /\ reads' = [reads EXCEPT ![i].phase = "active", ![i].snap = store[reads[i].c]]
    /\ resp' = NoResp
    /\ UNCHANGED <<db, initpc, dbVersion, storeNames, store, keyGen, now, hpc,
                   text, parsed, hrec, savedParts, statusBar, lastId>>

\* The index entry the cursor of a read stands at (0: none).
CursorAt(rd) ==
    LET idx == Index(Source(rd))
        below == {k \in 1..Len(idx) : KeyLess(idx[k].recordedAt, rd.arg)}
        k == IF rd.op = "getRecent" THEN Len(idx) - rd.passed
             ELSE Cardinality(below) + 1 + rd.passed
    IN  IF k >= 1 /\ k <= Len(idx) THEN k ELSE 0

\* request.onsuccess of read i: the record under the cursor is pushed and
\* the cursor continues, or the promise is resolved with the results.
cursorSuccess(i) ==
    LET rd == reads[i]
        k == CursorAt(rd)
        more == IF rd.op = "getRecent"
                THEN k # 0 /\ Len(rd.results) < rd.arg
                ELSE k # 0
    IN  /\ rd.phase = "active"
        /\ IF more
           THEN /\ reads' = [reads EXCEPT
                                ![i].results = Append(@, Index(Source(rd))[k]),
                                ![i].passed = @ + 1]
                /\ resp' = NoResp
           ELSE /\ reads' = SubSeq(reads, 1, i - 1)
                                \o SubSeq(reads, i + 1, Len(reads))
                /\ resp' = [op |-> "readDone", read |-> rd.op, c |-> rd.c,
                            arg |-> rd.arg, result |-> rd.results,
                            since |-> rd.since]
        /\ UNCHANGED <<db, initpc, dbVersion, storeNames, store, keyGen, now,
                       hpc, text, parsed, hrec, savedParts, statusBar, lastId>>

\* The store, the voice handler and reads that take their steps one by one.
NextSnapshot ==
    \/ init /\ UNCHANGED pageVars
    \/ \E t \in SpokenMeanwhile : processVoiceInput(t) /\ UNCHANGED pageVars
    \/ glucoseSettled /\ UNCHANGED pageVars
    \/ pressureSettled /\ UNCHANGED pageVars
    \/ \E limit \in 1..MaxLimit :
           callGetRecent(limit)
               /\ UNCHANGED <<handlerVars, listenVars, historyVars>>
    \/ \E days \in SummaryDays :
           callGetFilteredRecords(days)
               /\ UNCHANGED <<handlerVars, listenVars, historyVars>>
    \/ \E i \in 1..Len(reads) :
           txStart(i) /\ UNCHANGED <<handlerVars, listenVars, historyVars>>
    \/ \E i \in 1..Len(reads) :
           cursorSuccess(i) /\ UNCHANGED <<handlerVars, listenVars, historyVars>>
    \/ Tick /\ UNCHANGED pageVars

SpecSnapshot == Init /\ [][NextSnapshot]_vars

\* ------------------------------------------------------ speech recognition
\* The browser has a speech recognizer.  recognition is "null" or names the
\* handlers that are installed on it: "main" (initSpeechRecognition) or
\* "auto" (onresult, onerror and onend replaced by startAutoRecord).  A
\* session is "starting" from start() to its start event, "running" until a
\* final result, an error or stop(), and "ending" until its end event.

\* The transcripts recognized in sessions: 血糖 7; 你好.
Heard == { XueTang \o <<" ", "7">>, <<"ni", "hao">> }

\* What the recognizer's handlers leave as it is.
SpeechFrame ==
    UNCHANGED <<db, initpc, dbVersion, storeNames, store, keyGen, now, hpc,
                text, parsed, hrec, savedParts, lastId>>

\* recognition.start(): a session begins unless there is one (the
\* InvalidStateError is caught).
recognitionStart == IF session = "none" THEN "starting" ELSE session

\* recognition.stop(): the session, if any, goes on to its end event.
recognitionStop ==
    IF session \in {"starting", "running"} THEN "ending" ELSE session

\* initSpeechRecognition(): the recognizer with the main handlers.
initSpeechRecognition == "main"

\* toggleListening(), on the loaded page.
toggleListening ==
    /\ initpc = "settled"
    /\ IF isListening
       THEN /\ session' = recognitionStop
            /\ UNCHANGED recognition
       ELSE /\ recognition' = IF recognition = "null"
                              THEN initSpeechRecognition ELSE recognition
            /\ session' = recognitionStart
    /\ resp' = [op |-> "toggleListening", stop |-> isListening]
    /\ UNCHANGED <<isListening, statusBar, content>>
    /\ SpeechFrame

\* startAutoRecord(), on the loaded page: the overlay shows that it is
\* listening, three handlers are replaced, and start() is called.
startAutoRecord ==
    /\ initpc = "settled"
    /\ recognition' = "auto"
    /\ content' = [content EXCEPT !.shows = "listening"]
    /\ session' = recognitionStart
    /\ resp' = [op |-> "startAutoRecord"]
    /\ UNCHANGED <<isListening, statusBar>>
    /\ SpeechFrame

\* recognition.onstart, which startAutoRecord leaves in place.
onstart ==
    /\ session = "starting"
    /\ session' = "running"
    /\ isListening' = TRUE
    /\ statusBar' = "listening"
    /\ resp' = [op |-> "onstart"]
    /\ UNCHANGED <<recognition, content>>
    /\ SpeechFrame

\* recognition.onresult with a final result (continuous is false: the
\* session goes on to its end event): the installed handler passes the
\* transcript on.
onresult(t) ==
    /\ session = "running"
    /\ session' = "ending"
    /\ IF recognition = "main"
       THEN processVoiceInput(t) /\ UNCHANGED content
       ELSE processAutoVoiceInput(t)
    /\ UNCHANGED <<recognition, isListening>>

\* recognition.onerror: the main handler reports and calls stopListening(),
\* whose status text is the one that stays; the handler of startAutoRecord
\* shows the failure on the overlay.
onerror ==
    /\ session \in {"starting", "running"}
    /\ session' = "ending"
    /\ IF recognition = "main"
       THEN /\ isListening' = FALSE
            /\ statusBar' = "tapMic"
            /\ UNCHANGED content
       ELSE /\ content' = [content EXCEPT !.shows = "recognitionFailed"]
            /\ UNCHANGED <<isListening, statusBar>>
    /\ resp' = [op |-> "onerror"]
    /\ UNCHANGED recognition
    /\ SpeechFrame

\* recognition.onend: the main handler calls stopListening(); the handler of
\* startAutoRecord only removes a class of the overlay.
onend ==
    /\ session \in {"running", "ending"}
    /\ session' = "none"
    /\ IF recognition = "main"
       THEN /\ isListening' = FALSE
            /\ statusBar' = "tapMic"
       ELSE UNCHANGED <<isListening, statusBar>>
    /\ resp' = [op |-> "onend"]
    /\ UNCHANGED <<recognition, content>>
    /\ SpeechFrame

\* What a step of a handler leaves of the recognizer.
ListenFrame == UNCHANGED <<persisted, listenVars, historyVars, reads>>

\* The page with its recognizer: a load ends the session and clears the
\* module state; init() installs the recognizer once the database is open.
NextListen ==
    \/ /\ load
       /\ content' = [shows |-> "prompt", closing |-> FALSE]
       /\ recognition' = "null"
       /\ session' = "none"
       /\ isListening' = FALSE
       /\ UNCHANGED <<persisted, historyVars, reads>>
    \/ /\ init
       /\ recognition' = IF resp'.settled = "resolved"
                         THEN initSpeechRecognition ELSE recognition
       /\ UNCHANGED <<handlerVars, session, isListening, historyVars, reads>>
    \/ toggleListening /\ UNCHANGED <<persisted, historyVars, reads>>
    \/ startAutoRecord /\ UNCHANGED <<persisted, historyVars, reads>>
    \/ onstart /\ UNCHANGED <<persisted, historyVars, reads>>
    \/ \E t \in Heard : onresult(t) /\ UNCHANGED <<persisted, historyVars, reads>>
    \/ onerror /\ UNCHANGED <<persisted, historyVars, reads>>
    \/ onend /\ UNCHANGED <<persisted, historyVars, reads>>
    \/ glucoseSettled /\ UNCHANGED content /\ ListenFrame
    \/ autoGlucoseSettled /\ ListenFrame
    \/ closeOverlay /\ ListenFrame

SpecListen == Init /\ [][NextListen]_vars

\* ------------------------------------------------------------ history list

\* loadHistory calls that await their getRecent at one time.
MaxLoads == 2

\* getRecent(type, 20) in loadHistory.
HistoryLimit == 20

\* loadHistory(type) up to its await: getRecent is called (since: history,
\* the records the collection holds at the call); with no database handle
\* the call throws, the promise of loadHistory is rejected and nobody
\* handles it.
loadHistory(type) ==
    loads' = IF db' = "open"
             THEN Append(loads, [type |-> type, since |-> Len(store'[type])])
             ELSE loads

\* What switchTab leaves as it is.
HistoryFrame ==
    UNCHANGED <<db, initpc, dbVersion, storeNames, store, keyGen, now, hpc,
                text, parsed, hrec, savedParts, statusBar, lastId>>

\* switchTab(tab).
switchTab(tab) ==
    /\ Len(loads) < MaxLoads
    /\ HistoryFrame
    /\ currentTab' = tab
    /\ loadHistory(tab)
    /\ resp' = [op |-> "switchTab", tab |-> tab]
    /\ UNCHANGED historyList

\* The promise of getRecent of the pending loadHistory call i settles and
\* the call runs on: it renders the records it was given, which are those
\* of a content the collection had since the call; a rejected read leaves
\* the list as it is.
historyLoaded(i) ==
    LET c == loads[i].type
    IN  /\ \E ok \in BOOLEAN, m \in loads[i].since..Len(store[c]) :
               /\ historyList' =
                     IF ok THEN [type |-> c,
                                 records |-> getRecent(SubSeq(store[c], 1, m),
                                                       HistoryLimit)]
                     ELSE historyList
               /\ resp' = [op |-> "loadHistory", type |-> c, ok |-> ok]
        /\ loads' = SubSeq(loads, 1, i - 1) \o SubSeq(loads, i + 1, Len(loads))
        /\ UNCHANGED currentTab
        /\ HistoryFrame

\* processVoiceInput after its success report: loadHistory(currentTab).
HistoryRefresh ==
    /\ Len(loads) < MaxLoads
    /\ IF hpc' = "idle" /\ statusBar' = "recorded"
       THEN loadHistory(currentTab)
       ELSE UNCHANGED loads
    /\ UNCHANGED <<currentTab, historyList, handlerVars, listenVars, reads>>

\* The page with its history list: init() loads the glucose list once the
\* database is open, the tabs are switched, transcripts are handled, and
\* the pending loads complete in any order.
NextHistory ==
    \/ /\ load
       /\ currentTab' = "glucose"
       /\ historyList' = [type |-> "none", records |-> <<>>]
       /\ loads' = <<>>
       /\ UNCHANGED <<handlerVars, listenVars, reads>>
    \/ /\ init
       /\ IF resp'.settled = "resolved"
          THEN loadHistory("glucose") ELSE UNCHANGED loads
       /\ UNCHANGED <<currentTab, historyList, handlerVars, listenVars, reads>>
    \/ \E tab \in Collections :
           switchTab(tab) /\ UNCHANGED <<handlerVars, listenVars, reads>>
    \/ \E i \in 1..Len(loads) :
           historyLoaded(i) /\ UNCHANGED <<handlerVars, listenVars, reads>>
    \/ \E t \in SpokenMeanwhile : processVoiceInput(t) /\ HistoryRefresh
    \/ glucoseSettled /\ HistoryRefresh
    \/ pressureSettled /\ HistoryRefresh

SpecHistory == Init /\ [][NextHistory]_vars

\* ------------------------------------------------- the statistics alone

\* The records a collection holds at most when getStats is called.
MaxStatRecords == 2

\* The decimal numeral of n.
RECURSIVE Numeral(_)
Numeral(n) ==
    IF n < 10 THEN <<DigitChar(n)>>
    ELSE Numeral(n \div 10) \o <<DigitChar(n % 10)>>

\* Readings and the transcripts they were spoken in.
GlucoseValues == {70, 81, 82}
PressureValues == {<<130, 85>>, <<121, 80>>}
GlucoseText(v) == XueTang \o Numeral(v \div 10) \o <<".">> \o Numeral(v % 10)
PressureText(v) == XueYa \o Numeral(v[1]) \o <<" ">> \o Numeral(v[2])

\* The times of the stored records: today, three days ago (the cutoff of
\* the 3-day summary) and eight days ago (outside every window).
StatTimes == {MaxClock - 8, MaxClock - 3, MaxClock}

\* The contents a collection can have: records saved one after the other,
\* ids from 1, timestamps not decreasing.
Contents(c) ==
    LET Values == IF c = "glucose" THEN GlucoseValues ELSE PressureValues
        Saved(v, t) ==
            IF c = "glucose"
            THEN [value |-> v, unit |-> "mmol/L",
                  recordedAt |-> toISOString(t), notes |-> GlucoseText(v)]
            ELSE [systolic |-> v[1], diastolic |-> v[2],
                  recordedAt |-> toISOString(t), notes |-> PressureText(v)]
        Choices == UNION {[1..n -> Values \X StatTimes] : n \in 0..MaxStatRecords}
    IN  {[i \in 1..Len(ch) |-> WithId(c, Saved(ch[i][1], ch[i][2]), i)] :
            ch \in {x \in Choices :
                       \A i \in 1..(Len(x) - 1) : x[i][2] <= x[i + 1][2]}}

\* The application after some saves, at the time of a summary.
InitStats ==
    /\ db = "open"
    /\ initpc = "settled"
    /\ dbVersion = DB_VERSION
    /\ storeNames = Collections
    /\ store \in {[c \in Collections |-> IF c = "glucose" THEN g ELSE p] :
                     g \in Contents("glucose"), p \in Contents("pressure")}
    /\ keyGen = [c \in Collections |-> Len(store[c])]
    /\ lastId = [c \in Collections |-> Len(store[c])]
    /\ now = MaxClock
    /\ hpc = "idle"
    /\ text = <<>>
    /\ parsed = Empty
    /\ hrec = NoRecord
    /\ savedParts = <<>>
    /\ statusBar = "recorded"
    /\ resp = NoResp
    /\ InitPage

NextStats == \E days \in SummaryDays : GetStats(days) /\ UNCHANGED pageVars

SpecStats == InitStats /\ [][NextStats]_vars

\* ------------------------------------------------------------- properties

\* The time a record was stored at, read back from its timestamp.
TimeOf(r) == parseInt(r.recordedAt)

\* r1 is more recent than r2: a later recordedAt, or the same and a
\* greater id.
MoreRecent(r1, r2) ==
    \/ TimeOf(r1) > TimeOf(r2)
    \/ TimeOf(r1) = TimeOf(r2) /\ r1.id > r2.id

Elems(s) == {s[i] : i \in 1..Len(s)}

SaveOp(c) == IF c = "glucose" THEN "saveGlucose" ELSE "savePressure"

\* C1: getRecent(collection, limit) resolves with exactly min(limit, size)
\* records of the collection, which are its most recent ones, most recent
\* first, records of equal recordedAt by descending id; on an empty
\* collection it resolves with the empty sequence.
C1_GetRecentMostRecentFirst ==
    (resp.op = "getRecent" /\ db = "open") =>
        /\ resp.settled = "resolved"
        /\ LET r == resp.result
               recs == store[resp.c]
           IN  /\ Len(r) = Min(resp.limit, Len(recs))
               /\ Elems(r) \subseteq Elems(recs)
               /\ \A i \in 1..(Len(r) - 1) : MoreRecent(r[i], r[i + 1])
               /\ \A x \in Elems(recs) \ Elems(r) :
                      \A i \in 1..Len(r) : MoreRecent(r[i], x)

\* C1's case: a limit below the size, on two records of equal recordedAt.
C1_Witness ==
    /\ resp.op = "getRecent"
    /\ resp.settled = "resolved"
    /\ resp.limit = 1
    /\ Len(store[resp.c]) = 2
    /\ TimeOf(store[resp.c][1]) = TimeOf(store[resp.c][2])
    /\ resp.result = <<store[resp.c][2]>>

\* C2: after saveGlucose(v, notes) resolved and before any later insert,
\* getRecent('glucose', 1) returns exactly one record: value v, unit
\* "mmol/L", the notes given and the id saveGlucose returned.
C2_RoundTrip ==
    (resp.op = "saveGlucose" /\ resp.settled = "resolved") =>
        LET r == getRecent(store["glucose"], 1)
        IN  /\ Len(r) = 1
            /\ r[1].value = resp.record.value
            /\ r[1].unit = "mmol/L"
            /\ r[1].notes = resp.record.notes
            /\ r[1].id = resp.id

\* The round trip of a save whose transaction committed.
RoundTripWhenCommitted ==
    (resp.op = "saveGlucose" /\ resp.txn = "committed") => C2_RoundTrip

\* The records of collection c that getFilteredRecords returned to getStats.
Filtered(c) ==
    IF c = "glucose" THEN resp.result.glucoseRecords
    ELSE resp.result.pressureRecords

\* The positions of the records of collection c not older than time t.
Since(c, t) == {k \in 1..Len(store[c]) : TimeOf(store[c][k]) >= t}

\* C3: getFilteredRecords(collection, cutoff) returns exactly the records
\* of the collection with recordedAt >= cutoff (the one at the cutoff
\* included, each once), in ascending recordedAt order.
C3_FilteredSinceCutoff ==
    (resp.op = "getStats" /\ resp.settled = "resolved") =>
        \A c \in Collections :
            LET r == Filtered(c)
                cut == parseInt(resp.cutoffISO)
            IN  /\ Elems(r) = {store[c][k] : k \in Since(c, cut)}
                /\ Len(r) = Cardinality(Since(c, cut))
                /\ \A i \in 1..(Len(r) - 1) : TimeOf(r[i]) <= TimeOf(r[i + 1])

\* C3's case: a record exactly at the cutoff is returned and an older one
\* is not.
C3_Witness ==
    /\ resp.op = "getStats"
    /\ resp.settled = "resolved"
    /\ \E c \in Collections :
         /\ \E x \in Elems(Filtered(c)) : x.recordedAt = resp.cutoffISO
         /\ \E k \in 1..Len(store[c]) :
                TimeOf(store[c][k]) < parseInt(resp.cutoffISO)

\* C4: when a collection has no record inside the lookback window,
\* getStats(days) reports count 0 for it and null for each of its average,
\* min and max fields, whatever the other collection holds.
C4_EmptySetStatistics ==
    (resp.op = "getStats" /\ resp.settled = "resolved") =>
        /\ Since("glucose", now - resp.days) = {} =>
              /\ resp.result.glucose.count = 0
              /\ resp.result.glucose.min = Null
              /\ resp.result.glucose.max = Null
              /\ resp.result.glucose.average = Null
        /\ Since("pressure", now - resp.days) = {} =>
              /\ resp.result.pressure.count = 0
              /\ resp.result.pressure.minSystolic = Null
              /\ resp.result.pressure.maxSystolic = Null
              /\ resp.result.pressure.minDiastolic = Null
              /\ resp.result.pressure.maxDiastolic = Null
              /\ resp.result.pressure.avgSystolic = Null
              /\ resp.result.pressure.avgDiastolic = Null

\* C4's case: the glucose collection holds a record, none of them in the
\* window, and the pressure collection has a record in the window.
C4_Witness ==
    /\ resp.op = "getStats"
    /\ resp.settled = "resolved"
    /\ store["glucose"] # <<>>
    /\ resp.result.glucose.count = 0
    /\ resp.result.pressure.count > 0

\* The pressure pair of a text is out of bounds.
PairRejected(s) ==
    /\ BpMatch(s).found
    /\ ~InBounds(parseInt(BpMatch(s).g1), parseInt(BpMatch(s).g2))

\* C5: parseHealthText reports a pressure reading only if the matched pair
\* has 60 <= systolic <= 250 and 40 <= diastolic <= 150, and then it is the
\* matched pair; a matched pair outside the bounds leaves neither systolic
\* nor diastolic in the result, which is then the result of the text
\* without the pressure mention.
C5_BoundsRejection ==
    hpc = "parsed" =>
        LET bm == BpMatch(text)
        IN  /\ "systolic" \in DOMAIN parsed <=> "diastolic" \in DOMAIN parsed
            /\ "systolic" \in DOMAIN parsed =>
                  /\ bm.found
                  /\ parsed["systolic"] = parseInt(bm.g1)
                  /\ parsed["diastolic"] = parseInt(bm.g2)
                  /\ 60 <= parsed["systolic"] /\ parsed["systolic"] <= 250
                  /\ 40 <= parsed["diastolic"] /\ parsed["diastolic"] <= 150
            /\ PairRejected(text) =>
                  /\ DOMAIN parsed \subseteq {"bloodSugar"}
                  /\ \A g \in GlucoseMentions, j \in Joiners, p \in PressurePairs :
                        text \in {g \o j \o p, p \o j \o g}
                            => parsed = parseHealthText(g)

\* C5's case: a pair out of bounds (with a glucose mention beside it) is
\* dropped.
C5_Witness ==
    /\ hpc = "parsed"
    /\ PairRejected(text)
    /\ DOMAIN parsed = {"bloodSugar"}

\* The fields of a parse result that belong to one pattern.
Restrict(p, keys) == [k \in DOMAIN p \cap keys |-> p[k]]
GlucoseFields(p) == Restrict(p, {"bloodSugar"})
PressureFields(p) == Restrict(p, {"systolic", "diastolic"})

\* The result of a text made of glucose mention g and pressure mention p
\* has the glucose field of g alone and the pressure fields of p alone.
Independent(g, p) ==
    /\ GlucoseFields(parsed) = GlucoseFields(parseHealthText(g))
    /\ PressureFields(parsed) = PressureFields(parseHealthText(p))

\* C6: the two patterns are detected independently and in either order: the
\* glucose field of the result depends only on the glucose mention and the
\* pressure fields only on the pressure mention, so both readings are
\* reported when both are mentioned and neither suppresses the other.
C6_IndependentPatterns ==
    hpc = "parsed" =>
        \A g \in GlucoseMentions, j \in Joiners, p \in PressureMentions :
            text \in {g \o j \o p, p \o j \o g} => Independent(g, p)

\* The same when the pressure mention carries both its numbers (or is
\* absent): the texts on which the patterns are independent.
IndependentOnPairs ==
    hpc = "parsed" =>
        \A g \in GlucoseMentions, j \in Joiners,
           p \in PressurePairs \cup {<<>>, XueYa} :
            text \in {g \o j \o p, p \o j \o g} => Independent(g, p)

\* Both readings of a text are reported in one pass.
DualExtractionReached ==
    /\ hpc = "parsed"
    /\ DOMAIN parsed = {"bloodSugar", "systolic", "diastolic"}

\* A save of collection c resolved in this step.
SaveResolved(c) ==
    /\ resp'.op = SaveOp(c)
    /\ resp'.settled = "resolved"

\* The ids of the stored records of collection c are pairwise different.
DistinctIds(c) ==
    \A i, j \in 1..Len(store[c]) :
        store[c][i].id = store[c][j].id => i = j

\* C7: within a collection the ids its saves resolve with are strictly
\* increasing, also after a failed save, and the stored records have
\* pairwise different ids.
C7_MonotonicIds ==
    /\ [](\A c \in Collections : DistinctIds(c))
    /\ [][\A c \in Collections : SaveResolved(c) => resp'.id > lastId[c]]_vars

\* The ids of the committed records of a collection are strictly increasing.
StoredIdsIncreasing ==
    \A c \in Collections : \A i \in 1..(Len(store[c]) - 1) :
        store[c][i].id < store[c][i + 1].id

\* C8: initDB called on an initialized store succeeds when the engine is
\* available, leaves exactly the glucose and the pressure collection and
\* leaves every stored record (and key generator) unchanged.
C8_IdempotentInit ==
    [][(resp'.op = "initDB" /\ dbVersion = DB_VERSION) =>
          /\ resp'.available => (resp'.settled = "resolved" /\ db' = "open")
          /\ storeNames' = Collections
          /\ dbVersion' = DB_VERSION
          /\ store' = store
          /\ keyGen' = keyGen]_vars

\* C8's case: initDB has succeeded again on a store that holds records.
C8_Witness ==
    /\ resp.op = "initDB"
    /\ resp.settled = "resolved"
    /\ TotalRecords > 0
    /\ storeNames = Collections

IsPrefix(s, t) == Len(s) <= Len(t) /\ SubSeq(t, 1, Len(s)) = s

\* C9: the store is append-only: every step keeps each stored record as
\* it is, only a save of a collection adds to it, a save that resolves
\* adds exactly one record, and no step changes the other collection.
C9_AppendOnly ==
    [][\A c \in Collections :
          /\ IsPrefix(store[c], store'[c])
          /\ store'[c] # store[c] =>
                (resp'.op = SaveOp(c) /\ Len(store'[c]) = Len(store[c]) + 1)
          /\ SaveResolved(c) => Len(store'[c]) = Len(store[c]) + 1]_vars

\* The frame of the store: a step leaves a collection as it is, or it is a
\* save of that collection appending one record.
FrameOfStore ==
    [][\A c \in Collections :
          \/ store'[c] = store[c]
          \/ /\ resp'.op = SaveOp(c)
             /\ Len(store'[c]) = Len(store[c]) + 1
             /\ IsPrefix(store[c], store'[c])]_vars

\* The record a settled save was to store is in its collection, under the
\* id the save returned.
Stored(c) ==
    \E x \in Elems(store[c]) :
        /\ x.id = resp.id
        /\ x.recordedAt = resp.record.recordedAt
        /\ x.notes = resp.record.notes

\* C10: when the insert transaction of a save fails, the save is rejected,
\* no record is added and the handler reports "save failed" and not
\* "recorded"; a save that returns an id has stored the record with that id.
C10_FailedInsertIsReported ==
    \A c \in Collections :
        resp.op = SaveOp(c) =>
            /\ resp.txn = "aborted" =>
                  (resp.settled = "rejected" /\ statusBar = "saveFailed")
            /\ resp.settled = "rejected" =>
                  (statusBar = "saveFailed" /\ ~Stored(c))
            /\ resp.settled = "resolved" => Stored(c)

\* The same for the failures that request.onerror reports.
RequestErrorIsReported ==
    \A c \in Collections :
        (resp.op = SaveOp(c) /\ resp.settled = "rejected") =>
            (statusBar = "saveFailed" /\ resp.txn = "aborted")

\* The handlers and what each shows for a transcript it did not understand.
Handlers == {"processVoiceInput", "processAutoVoiceInput"}

Prompted(h) ==
    IF h = "processVoiceInput" THEN statusBar = "retry"
    ELSE content.shows = "notUnderstood"

\* C11: when the extractor finds neither pattern in a transcript (a
\* pressure pair rejected by the bounds included), the handler that took
\* it calls no save, leaves both collections as they are, shows its "try
\* again" prompt and ends without an error; and a handler gives that
\* prompt only for a transcript in which nothing was recognized.
C11_NoMatchPrompt ==
    [][\A h \in Handlers :
          /\ (resp'.op = h /\ parseHealthText(resp'.text) = Empty) =>
                /\ Prompted(h)'
                /\ store' = store /\ keyGen' = keyGen
                /\ hpc' = "idle"
          /\ (Prompted(h)' /\ ~Prompted(h)) =>
                (resp'.op = h /\ parseHealthText(resp'.text) = Empty)]_vars

\* C11's case: both handlers have given the prompt, on a store that holds
\* records.
C11_Witness ==
    /\ statusBar = "retry"
    /\ content.shows = "notUnderstood"
    /\ hpc = "idle"
    /\ TotalRecords > 0

\* The pairs of positions of a getRecent result holding records of one
\* recordedAt.
Ties(r) ==
    {p \in (1..Len(r)) \X (1..Len(r)) :
        p[1] < p[2] /\ TimeOf(r[p[1]]) = TimeOf(r[p[2]])}

\* C12 as stated: retrieval by recordedAt descending is a total order in
\* which records of identical recordedAt come in insertion order, by
\* ascending id.
C12_TiesByAscendingId ==
    (resp.op = "getRecent" /\ resp.settled = "resolved") =>
        /\ \A i, j \in 1..Len(resp.result) :
              i < j => TimeOf(resp.result[i]) >= TimeOf(resp.result[j])
        /\ \A p \in Ties(resp.result) :
              resp.result[p[1]].id < resp.result[p[2]].id

\* C12 amended: retrieval by recordedAt descending is a total order in which
\* records of identical recordedAt come in reverse insertion order, by
\* descending id.
C12_TiesByDescendingId ==
    (resp.op = "getRecent" /\ resp.settled = "resolved") =>
        /\ \A i, j \in 1..Len(resp.result) :
              i < j => TimeOf(resp.result[i]) >= TimeOf(resp.result[j])
        /\ \A p \in Ties(resp.result) :
              resp.result[p[1]].id > resp.result[p[2]].id

\* C12's case: getRecent has returned two records of one recordedAt.
C12_Witness ==
    /\ resp.op = "getRecent"
    /\ resp.settled = "resolved"
    /\ Ties(resp.result) # {}

\* The sum of field f over the records of collection c at positions K.
RECURSIVE SumAt(_, _, _)
SumAt(c, f, K) ==
    IF K = {} THEN 0
    ELSE LET k == CHOOSE x \in K : TRUE
         IN  store[c][k][f] + SumAt(c, f, K \ {k})

\* The values of field f of the records of collection c at positions K.
ValuesAt(c, f, K) == {store[c][k][f] : k \in K}

\* lo and hi are the least and the greatest member of the set V.
Extremes(V, lo, hi) ==
    /\ lo \in V /\ hi \in V
    /\ \A v \in V : lo <= v /\ v <= hi

\* a is sum / n rounded half up to a whole unit.
HalfUp(a, sum, n) == 2 * n * a - n <= 2 * sum /\ 2 * sum < 2 * n * a + n

\* a is a whole unit nearest to sum / n.
Nearest(a, sum, n) == 2 * n * a - n <= 2 * sum /\ 2 * sum <= 2 * n * a + n

\* The pressure statistics of a getStats result are those of the records
\* at positions K.
PressureStatsOf(st, K) ==
    /\ st.count = Cardinality(K)
    /\ K # {} =>
          /\ Extremes(ValuesAt("pressure", "systolic", K),
                      st.minSystolic, st.maxSystolic)
          /\ Extremes(ValuesAt("pressure", "diastolic", K),
                      st.minDiastolic, st.maxDiastolic)
          /\ HalfUp(st.avgSystolic, SumAt("pressure", "systolic", K),
                    Cardinality(K))
          /\ HalfUp(st.avgDiastolic, SumAt("pressure", "diastolic", K),
                    Cardinality(K))
          /\ st.minSystolic <= st.avgSystolic
          /\ st.avgSystolic <= st.maxSystolic
          /\ st.minDiastolic <= st.avgDiastolic
          /\ st.avgDiastolic <= st.maxDiastolic

\* The count and the extremes of the glucose statistics of a getStats
\* result are those of the records at positions K.
GlucoseStatsOf(st, K) ==
    /\ st.count = Cardinality(K)
    /\ K # {} =>
          /\ Extremes(ValuesAt("glucose", "value", K), st.min, st.max)
          /\ st.min <= st.average.toFixed
          /\ st.average.toFixed <= st.max

\* C13: for a non-empty window getStats(days) reports, for each collection,
\* the number of its records with recordedAt >= cutoff, the least and the
\* greatest of their values, for glucose their mean rounded to one decimal
\* place and for pressure the means rounded to the nearest integer, so
\* that min <= average <= max.
C13_StatisticsOfWindow ==
    (resp.op = "getStats" /\ resp.settled = "resolved") =>
        LET G == Since("glucose", now - resp.days)
            P == Since("pressure", now - resp.days)
        IN  /\ PressureStatsOf(resp.result.pressure, P)
            /\ GlucoseStatsOf(resp.result.glucose, G)
            /\ G # {} => HalfUp(resp.result.glucose.average.toFixed,
                                SumAt("glucose", "value", G), Cardinality(G))

\* What the statistics do satisfy: C13 with the glucose average a tenth
\* nearest to the mean, on either side of a mean midway between two tenths.
StatisticsNearestOfWindow ==
    (resp.op = "getStats" /\ resp.settled = "resolved") =>
        LET G == Since("glucose", now - resp.days)
            P == Since("pressure", now - resp.days)
        IN  /\ PressureStatsOf(resp.result.pressure, P)
            /\ GlucoseStatsOf(resp.result.glucose, G)
            /\ G # {} => Nearest(resp.result.glucose.average.toFixed,
                                 SumAt("glucose", "value", G), Cardinality(G))

\* What a read gives on content s of its collection, taken at once.
ReadOf(op, arg, s) ==
    IF op = "getRecent" THEN getRecent(s, arg) ELSE getFilteredRecords(s, arg)

\* The contents collection c has had since it held n records: the store
\* only appends.
ContentsSince(c, n) == {SubSeq(store[c], 1, m) : m \in n..Len(store[c])}

\* C14: a getRecent or getFilteredRecords call that runs while saves and
\* other reads go on resolves with what the read gives on the content its
\* collection had at one point between the call and the completion.
C14_SnapshotReads ==
    resp.op = "readDone" =>
        \E s \in ContentsSince(resp.c, resp.since) :
            resp.result = ReadOf(resp.read, resp.arg, s)

\* C14's case: a record was committed to the collection while a read of it
\* was in progress, another read was in progress too, and the read has
\* resolved with something else than the collection now gives.
C14_Witness ==
    /\ resp.op = "readDone"
    /\ resp.since < Len(store[resp.c])
    /\ reads # <<>>
    /\ resp.result # <<>>
    /\ resp.result # ReadOf(resp.read, resp.arg, store[resp.c])

\* C15: when the engine cannot be opened, initDB rejects, the database
\* handle is not set, init() shows the initialization failure, and from
\* then on the handle stays unset and initDB is not called again until the
\* page is loaded anew.
C15_OpenFailure ==
    [][/\ (resp'.op = "initDB" /\ ~resp'.available) =>
              resp'.settled = "rejected"
       /\ (resp'.op = "initDB" /\ resp'.settled = "rejected") =>
              /\ db' = "null"
              /\ statusBar' = "initFailed"
              /\ initpc' = "settled"
              /\ store' = store /\ dbVersion' = dbVersion
       /\ (initpc = "settled" /\ db = "null") =>
              /\ db' = "null"
              /\ resp'.op # "initDB"
              /\ store' = store]_vars

\* C15's case: the open has failed and, later in the same session, a
\* transcript was handled against the handle that was never set.
C15_Witness ==
    /\ initpc = "settled"
    /\ db = "null"
    /\ dbVersion < DB_VERSION
    /\ resp.op = "processVoiceInput"
    /\ statusBar = "saveFailed"

\* A stored glucose record is positive and is what its notes parse to.
GlucoseRecordValid(r) ==
    /\ r.value > 0
    /\ r.notes \in Transcripts
    /\ "bloodSugar" \in DOMAIN TranscriptParse[r.notes]
    /\ TranscriptParse[r.notes]["bloodSugar"] = r.value

\* A stored pressure record is within the bounds and is what its notes
\* parse to.
PressureRecordValid(r) ==
    /\ 60 <= r.systolic /\ r.systolic <= 250
    /\ 40 <= r.diastolic /\ r.diastolic <= 150
    /\ r.notes \in Transcripts
    /\ {"systolic", "diastolic"} \subseteq DOMAIN TranscriptParse[r.notes]
    /\ TranscriptParse[r.notes]["systolic"] = r.systolic
    /\ TranscriptParse[r.notes]["diastolic"] = r.diastolic

\* C16: whatever transcripts the two handlers have handled, every stored
\* glucose record has a value above 0, every stored pressure record has
\* 60 <= systolic <= 250 and 40 <= diastolic <= 150, and the notes of each
\* record are the whole transcript its values were extracted from.
C16_StoredRecordsValid ==
    /\ \A k \in 1..Len(store["glucose"]) :
           GlucoseRecordValid(store["glucose"][k])
    /\ \A k \in 1..Len(store["pressure"]) :
           PressureRecordValid(store["pressure"][k])

\* C16's case: both collections hold a record, and the records came from
\* different transcripts.
C16_Witness ==
    /\ store["glucose"] # <<>>
    /\ store["pressure"] # <<>>
    /\ store["glucose"][1].notes # store["pressure"][1].notes

\* The step in which handler h reports success.
SuccessReported(h) ==
    /\ hpc' = "idle"
    /\ IF h = "processVoiceInput"
       THEN /\ \/ resp'.op = h
               \/ hpc \in {"awaitGlucose", "awaitPressure"}
            /\ statusBar' = "recorded"
       ELSE /\ \/ resp'.op = h
               \/ hpc \in {"autoAwaitGlucose", "autoAwaitPressure"}
            /\ content'.shows = "recorded"

\* The records of collection c persisted for the transcript being handled,
\* this step's included.
Inserted(c) == persisted[c] + Len(store'[c]) - Len(store[c])

\* C17: when a handler reports success, every reading in the parse result
\* of the handled transcript has been inserted exactly once into its
\* collection, and at least one record was inserted.
C17_SuccessMeansPersisted ==
    [][\A h \in Handlers :
          SuccessReported(h) =>
              LET p == parseHealthText(IF hpc = "idle" THEN resp'.text ELSE text)
              IN  /\ Inserted("glucose")
                        = (IF "bloodSugar" \in DOMAIN p THEN 1 ELSE 0)
                  /\ Inserted("pressure")
                        = (IF {"systolic", "diastolic"} \subseteq DOMAIN p
                           THEN 1 ELSE 0)
                  /\ Inserted("glucose") + Inserted("pressure") >= 1]_vars

\* The step in which handler h reports that saving failed.
FailureReported(h) ==
    /\ hpc' = "idle"
    /\ IF h = "processVoiceInput"
       THEN /\ \/ resp'.op = h
               \/ hpc \in {"awaitGlucose", "awaitPressure"}
            /\ statusBar' = "saveFailed"
       ELSE /\ \/ resp'.op = h
               \/ hpc \in {"autoAwaitGlucose", "autoAwaitPressure"}
            /\ content'.shows = "saveFailed"

\* C18: when a handler reports that saving failed, no record of the
\* handled transcript has been persisted in either collection.
C18_AllOrNothing ==
    [][\A h \in Handlers :
          FailureReported(h) =>
              Inserted("glucose") = 0 /\ Inserted("pressure") = 0]_vars

\* C19: isListening is true only between the start event of a session and
\* its end or error event; once every session has ended it is false, so
\* that the next toggleListening() starts a session.
C19_ListeningTracksSession ==
    isListening => session \in {"running", "ending"}

\* C20: once no loadHistory call is pending, the rendered history list
\* shows records of the collection named by currentTab: what getRecent
\* gives on a content that collection has had.
C20_ListShowsCurrentTab ==
    (loads = <<>> /\ historyList.type # "none") =>
        historyList.records
            \in {getRecent(s, HistoryLimit) : s \in ContentsSince(currentTab, 0)}

\* The step calls a storage operation: a read, or a save from the
\* voice-input handler.
StorageOperationCalled ==
    \/ resp'.op \in {"getRecent", "getStats"}
    \/ /\ resp'.op = "processVoiceInput"
       /\ SavesOf(parseHealthText(resp'.text)) > 0

\* C21: a storage operation is called only when initDB has succeeded and
\* the database handle is set, never while init() is pending or after it
\* has failed.
C21_StorageOnlyAfterOpen ==
    [][StorageOperationCalled => (initpc = "settled" /\ db = "open")]_vars

=============================================================================
